---- MODULE Spec2Model ----
(***************************************************************************)
(* A model of extrasemantics/evaluate.py: possibilities (referent system,  *)
(* assignment, world), information states with the dynamic (CorMod/DPL)    *)
(* interpreter, dynamic inquisitive states with the IDPL interpreter and   *)
(* find_maximal, and inquisitive states with the static (InqBQ)            *)
(* interpreter; also ReferentSystem and Assignment as objects under add    *)
(* and purge, the constructors of InformationState and                     *)
(* DynamicInquisitiveState over the lists they are handed, and expand,     *)
(* shrink and copy.                                                        *)
(*                                                                         *)
(* Representation.  A ReferentSystem is its list self.variables, an        *)
(* Assignment its list self.values (peg p<i> is position i+1), a World is  *)
(* its valuation (a record; every world names john and mary), with one     *)
(* World object per valuation.  An InformationState is its frozenset of    *)
(* possibilities, a DynamicInquisitiveState its set of information states; *)
(* their referentsystem attributes are functions of the members.  The      *)
(* domain of every state is Dom.  A formula is the tree                    *)
(* Expression.fromstring returns.                                          *)
(* Only where a ReferentSystem is itself the receiver of add and purge is  *)
(* it the pair of its list and its dict, which purge lets drift apart; the *)
(* interpreters never purge a referent system.                             *)
(*                                                                         *)
(* Two possibilities are equal in the program when their item sets are;    *)
(* in the states of the runs no two distinct variable lists have the same  *)
(* items, so equality of the records is that equality.                     *)
(*                                                                         *)
(* Where the program iterates a set and the order shows in the outcome,    *)
(* the order is a choice of the run: domOrder for self.domain, the member  *)
(* picked by FMVisit for self.infostates.  In the runs, an atomic formula  *)
(* that raises Undefined on one possibility of a state raises it on all    *)
(* (the worlds of a state come from one family and hold the same symbols), *)
(* so the order in which the possibilities are tested does not show.       *)
(***************************************************************************)
EXTENDS Integers, Sequences, FiniteSets, TLC

VARIABLES
    kind,       \* which class the receiver of this run belongs to
    domOrder,   \* the order in which this process iterates the set self.domain
    info,       \* the InformationState receiver
    inq,        \* the DynamicInquisitiveState receiver (self.infostates)
    asg,        \* the nltk assignment g handed to the static evaluate
    lastf,      \* the formula of the last evaluate call, NoFormula before it
    res,        \* what the last evaluate call returned or raised
    cmp,        \* the last comparison made: its operands and verdicts
    fm,         \* the run of find_maximal: position, members to visit, maximal set
    calls,      \* how many results the caller has gone on with
    refsys,     \* the ReferentSystem receiver: self.variables and its dict items
    assignment, \* the Assignment receiver: self.values
    args,       \* the arguments of the constructor or of expand/shrink
    op,         \* the calls other than the first evaluate made so far, in order
    result      \* what the last of those calls returned or raised

\* the state of the calls other than evaluate, comparison and find_maximal
objvars == <<refsys, assignment, args, op, result>>

vars == <<kind, domOrder, info, inq, asg, lastf, res, cmp, fm, calls, objvars>>

----------------------------------------------------------------------------
(* The scenario of the examples and tests: two individuals, the predicate  *)
(* sleep over all subsets, dance its complement, john = b1, mary = c1.     *)

Dom == {"b1", "c1"}

Names == [john |-> "b1", mary |-> "c1"]

\* vals of examples_cormod_dpl.py: sleep and dance are complementary
Vals == {[sleep |-> S, dance |-> Dom \ S] : S \in SUBSET Dom}

\* vals of tests.py: only sleep is in the valuation
SleepVals == {[sleep |-> S] : S \in SUBSET Dom}

\* is_indvar of nltk: the names that are individual variables
IndVars == {"x", "y", "z", "w", "v"}

None == "None"

----------------------------------------------------------------------------
(* Assignment and ReferentSystem.                                          *)

\* dict items of an Assignment: peg p<i> -> values[i]
AItems(g) == {<<i - 1, g[i]>> : i \in 1..Len(g)}

\* dict items of a ReferentSystem: a later occurrence of a variable overwrites
RSItems(r) == {<<r[i], i - 1>> : i \in {j \in 1..Len(r) : \A k \in (j+1)..Len(r) : r[k] # r[j]}}

RSVars(r) == {r[i] : i \in 1..Len(r)}

\* referentsystem[x], as a peg number
RSPeg(r, x) == CHOOSE n \in 0..(Len(r) - 1) : <<x, n>> \in RSItems(r)

\* Assignment.add(value) with no peg: append
AssignmentAdd(g, value) == Append(g, value)

\* ReferentSystem.add(variable)
ReferentSystemAdd(r, variable) == Append(r, variable)

----------------------------------------------------------------------------
(* Possibility: hash, equality and the subsumption order.                  *)

Poss(r, g, w) == [r |-> r, g |-> g, w |-> w]

\* __eq__ is equality of the hashes of the three item sets
PossEq(p, q) ==
    /\ RSItems(p.r) = RSItems(q.r)
    /\ AItems(p.g) = AItems(q.g)
    /\ p.w = q.w

PossLt(p, q) ==
    /\ RSItems(p.r) \subseteq RSItems(q.r)
    /\ AItems(p.g) \subseteq AItems(q.g)
    /\ p.w = q.w
    /\ ~PossEq(p, q)

PossLe(p, q) == PossEq(p, q) \/ PossLt(p, q)

\* Possibility.subsists(informationstate): the possibilities it is subsumed by
PossSubsists(p, s) == {q \in s : PossLe(p, q)}

----------------------------------------------------------------------------
(* InformationState: attributes, equality and order.                       *)

\* self.referentsystem is None for a state without possibilities, else the
\* referent system all its possibilities carry
InfoRSIsNone(s) == s = {}

InfoRS(s) == (CHOOSE p \in s : TRUE).r

\* __eq__ compares hash(self.possibilities)
InfoEq(s, t) ==
    /\ \A p \in s : \E q \in t : PossEq(p, q)
    /\ \A q \in t : \E p \in s : PossEq(p, q)

InfoLt(s, t) ==
    /\ ~InfoEq(s, t)
    /\ \A poss2 \in t : \E poss \in s : PossLe(poss, poss2)

InfoLe(s, t) == InfoEq(s, t) \/ InfoLt(s, t)

\* InformationState.subsists(informationstate)
InfoSubsistsInfo(s, t) == \A p \in s : PossSubsists(p, t) # {}

----------------------------------------------------------------------------
(* Formulas, as the parser builds them.                                    *)

App(pred, arg)  == [op |-> "app", pred |-> pred, arg |-> arg]
Eq(a, b)        == [op |-> "eq", first |-> a, second |-> b]
And(a, b)       == [op |-> "and", first |-> a, second |-> b]
Or(a, b)        == [op |-> "or", first |-> a, second |-> b]
Imp(a, b)       == [op |-> "imp", first |-> a, second |-> b]
Not(a)          == [op |-> "not", term |-> a]
Exists(v, a)    == [op |-> "exists", variable |-> v, term |-> a]
All(v, a)       == [op |-> "all", variable |-> v, term |-> a]
Bang(a)         == [op |-> "bang", term |-> a]
Question(a)     == [op |-> "question", term |-> a]
Exh(a)          == [op |-> "exh", term |-> a]

NoFormula == [op |-> "none"]

----------------------------------------------------------------------------
(* The atomic-truth primitive: World.satisfy of nltk on an application or  *)
(* an equality, under the assignment rebuilt from (referent system,        *)
(* assignment).  "T", "F", or "U" when Undefined is raised.                *)

\* the valuation's symbols
Symbols(w) == DOMAIN w \cup DOMAIN Names

ValOf(w, name) == IF name \in DOMAIN Names THEN Names[name] ELSE w[name]

\* [(x, assignment[referentsystem[x]]) for x in referentsystem]: a peg the
\* assignment does not hold raises Undefined
PegsDefined(p) == \A x \in RSVars(p.r) : RSPeg(p.r, x) < Len(p.g)

VarAssign(p) == [x \in RSVars(p.r) |-> p.g[RSPeg(p.r, x) + 1]]

\* Model.i on a term: a symbol of the valuation, else an individual variable
\* of g, else Undefined
TermDefined(w, g, name) == name \in Symbols(w) \/ (name \in IndVars /\ name \in DOMAIN g)

TermVal(w, g, name) == IF name \in Symbols(w) THEN ValOf(w, name) ELSE g[name]

WorldSatisfy(w, g, f) ==
    IF f.op = "app"
    THEN IF f.pred \in DOMAIN w /\ TermDefined(w, g, f.arg)
         THEN IF TermVal(w, g, f.arg) \in w[f.pred] THEN "T" ELSE "F"
         ELSE "U"
    ELSE IF TermDefined(w, g, f.first) /\ TermDefined(w, g, f.second)
         THEN IF TermVal(w, g, f.first) = TermVal(w, g, f.second) THEN "T" ELSE "F"
         ELSE "U"

AtomVal(p, f) == IF PegsDefined(p) THEN WorldSatisfy(p.w, VarAssign(p), f) ELSE "U"

----------------------------------------------------------------------------
(* What a call ends with: a state, no value (None), or an exception.       *)

State(s)   == [tag |-> "state", st |-> s]
Raise(e)   == [tag |-> e, st |-> {}]
NoValue    == [tag |-> None, st |-> {}]
NoResult   == [tag |-> "nocall", st |-> {}]

Exceptions == {"Undefined", "AttributeError", "TypeError", "ValueError", "IndexError"}

IsRaise(o) == o.tag \in Exceptions

----------------------------------------------------------------------------
(* InformationState.satisfy: the dynamic (CorMod/DPL) interpreter.         *)

\* the state the quantifiers evaluate their body against: the shared referent
\* system extended once, every possibility with each individual at the end
InfoEnlarge(s, variable, indivs) ==
    {Poss(ReferentSystemAdd(InfoRS(s), variable), AssignmentAdd(p.g, d), p.w) : p \in s, d \in indivs}

\* the test of negation on a possibility
InfoNegatedKeeps(p, pos_possibilities) == PossSubsists(p, pos_possibilities) = {}

\* a disjunction that keeps a possibility only if it subsists in both states:
\* what InfoOrKeeps must not be if the classical equivalences are to hold
InfoOrKeepsBoth(p, first, second) == PossSubsists(p, first) # {} /\ PossSubsists(p, second) # {}

\* the test of disjunction on a possibility, given the states of the first
\* disjunct and of not-first-then-second
InfoOrKeeps(p, first, second) == PossSubsists(p, first) # {} \/ PossSubsists(p, second) # {}

\* the test of implication on a possibility
InfoImpKeeps(poss, antecedent, ant_consequent) ==
    \A x \in PossSubsists(poss, antecedent) : PossSubsists(x, ant_consequent) # {}

RECURSIVE SatisfyInfo(_, _), AllScan(_, _, _, _)

\* all(poss.subsists(<body over the state enlarged with indiv>) for indiv in
\* self.domain): "T", "F" at the first indiv that fails (the later ones are
\* not evaluated), or the exception the evaluation of a body raises
AllScan(s, f, poss, i) ==
    IF i > Len(domOrder) THEN "T"
    ELSE LET body == SatisfyInfo(InfoEnlarge(s, f.variable, {domOrder[i]}), f.term)
         IN  IF IsRaise(body) THEN body.tag
             ELSE IF body.tag = None THEN "TypeError"
             ELSE IF PossSubsists(poss, body.st) = {} THEN "F"
             ELSE AllScan(s, f, poss, i + 1)

SatisfyInfo(s, f) ==
    CASE f.op = "app" ->
            IF \E p \in s : AtomVal(p, f) = "U" THEN Raise("Undefined")
            ELSE State({p \in s : AtomVal(p, f) = "T"})
      [] f.op = "and" ->
            LET a == SatisfyInfo(s, f.first)
            IN  IF IsRaise(a) THEN a
                ELSE IF a.tag = None THEN Raise("AttributeError")
                ELSE SatisfyInfo(a.st, f.second)
      [] f.op = "not" ->
            LET pos == SatisfyInfo(s, f.term)
            IN  IF IsRaise(pos) THEN pos
                ELSE IF pos.tag = None
                     THEN IF s = {} THEN State({}) ELSE Raise("TypeError")
                ELSE State({p \in s : InfoNegatedKeeps(p, pos.st)})
      [] f.op = "exists" ->
            IF InfoRSIsNone(s) THEN Raise("AttributeError")
            ELSE SatisfyInfo(InfoEnlarge(s, f.variable, Dom), f.term)
      [] f.op = "or" ->
            IF s = {} THEN State({})
            ELSE LET a == SatisfyInfo(s, f.first)
                 IN  IF IsRaise(a) THEN a
                     ELSE IF a.tag = None THEN Raise("TypeError")
                     ELSE IF \A p \in s : PossSubsists(p, a.st) # {} THEN State(s)
                     ELSE LET n == SatisfyInfo(s, Not(f.first))
                              b == SatisfyInfo(n.st, f.second)
                          IN  IF IsRaise(b) THEN b
                              ELSE IF b.tag = None THEN Raise("TypeError")
                              ELSE State({p \in s : InfoOrKeeps(p, a.st, b.st)})
      [] f.op = "imp" ->
            IF s = {} THEN State({})
            ELSE LET a == SatisfyInfo(s, f.first)
                 IN  IF IsRaise(a) THEN a
                     ELSE IF a.tag = None THEN Raise("TypeError")
                     ELSE IF \A p \in s : PossSubsists(p, a.st) = {} THEN State(s)
                     ELSE LET ac == SatisfyInfo(a.st, f.second)
                          IN  IF IsRaise(ac) THEN ac
                              ELSE IF ac.tag = None THEN Raise("TypeError")
                              ELSE State({p \in s : InfoImpKeeps(p, a.st, ac.st)})
      [] f.op = "all" ->
            IF InfoRSIsNone(s) THEN Raise("AttributeError")
            ELSE IF \E p \in s : AllScan(s, f, p, 1) \in Exceptions
                 THEN Raise(CHOOSE e \in Exceptions : \E p \in s : AllScan(s, f, p, 1) = e)
                 ELSE State({p \in s : AllScan(s, f, p, 1) = "T"})
      [] OTHER -> NoValue

\* InformationState.evaluate: satisfy, with Undefined turned into the
\* sentinel 'Undefined'; every other exception leaves the call
Sentinel == [tag |-> "'Undefined'", st |-> {}]

EvaluateInfo(s, f) ==
    LET o == SatisfyInfo(s, f) IN IF o.tag = "Undefined" THEN Sentinel ELSE o

\* an evaluate that would update the receiver in place: the receiver becomes
\* the state it returns
InfoEvaluateCallInPlace(s, f) ==
    LET ret == EvaluateInfo(s, f)
    IN  [self |-> IF ret.tag = "state" THEN ret.st ELSE s, ret |-> ret]

\* one call s.evaluate(f): the receiver's possibilities after it, and the result
InfoEvaluateCall(s, f) == [self |-> s, ret |-> EvaluateInfo(s, f)]

----------------------------------------------------------------------------
(* DynamicInquisitiveState: attributes and construction.                   *)

\* InformationState.yieldsubsets
YieldSubsets(s, emptyset_included) == IF emptyset_included THEN SUBSET s ELSE (SUBSET s) \ {{}}

\* the members __init__ adds with only_maximal=True: every subset of every
\* information state of the list
DownwardClosure(alternatives) == UNION {YieldSubsets(a, TRUE) : a \in alternatives}

\* a constructor that adds the information states of the list only, never
\* their subsets
DISInitListOnly(infostates, only_maximal) == infostates

\* DynamicInquisitiveState(infostates, only_maximal)
DISInit(infostates, only_maximal) ==
    IF only_maximal THEN DownwardClosure(infostates) ELSE infostates

\* self.referentsystem after __init__: the referent system of a member that
\* has one (a non-empty mapping); it stays None when no member has
InqRSIsNone(S) == ~\E s \in S : s # {} /\ InfoRS(s) # <<>>

InqRS(S) == InfoRS(CHOOSE s \in S : s # {} /\ InfoRS(s) # <<>>)

\* InformationState.subsists(inquisitive state): the members it subsists in
InfoSubsistsInq(s, S) == {i \in S : InfoSubsistsInfo(s, i)}

\* a purge that pops the first value whichever peg it is given
AssignmentPurgeFirst(g, peg) == IF peg = 0 THEN <<>> ELSE Tail(g)

\* Assignment.purge(var) with a peg: peg 0 is "no peg" and empties the assignment
AssignmentPurge(g, peg) ==
    IF peg = 0 THEN <<>>
    ELSE [i \in 1..(Len(g) - 1) |-> IF i <= peg THEN g[i] ELSE g[i + 1]]

\* Assignment.add(value, peg) with a peg: peg 0 is "no peg" and appends
AssignmentAddAt(g, value, peg) ==
    IF peg = 0 \/ peg >= Len(g) THEN Append(g, value)
    ELSE [i \in 1..(Len(g) + 1) |-> IF i <= peg THEN g[i] ELSE IF i = peg + 1 THEN value ELSE g[i - 1]]

\* an enlargement with one individual at the new peg in each alternative, as
\* the dynamic interpreter would have it
InqEnlargeEach(S, rs, variable) ==
    {{Poss(ReferentSystemAdd(rs, variable), AssignmentAdd(p.g, d), p.w) : p \in s} : s \in S, d \in Dom}

\* the alternatives the quantifiers evaluate their body over: every member
\* with every non-empty subset of the domain at the new peg
InqEnlarge(S, rs, variable) ==
    {{Poss(ReferentSystemAdd(rs, variable), AssignmentAdd(p.g, d), p.w) : d \in sub, p \in s} :
        s \in S, sub \in (SUBSET Dom) \ {{}}}

\* new_possg after purge(peg_name+i).add(exindiv, peg_name+i) for each i
RECURSIVE Rebind(_, _, _, _)
Rebind(g, sub_individuals, peg_name, i) ==
    IF i > Len(sub_individuals) THEN g
    ELSE Rebind(AssignmentAddAt(AssignmentPurge(g, peg_name + i - 1), sub_individuals[i], peg_name + i - 1),
                sub_individuals, peg_name, i + 1)

----------------------------------------------------------------------------
(* DynamicInquisitiveState.find_maximal.                                   *)

\* a loop body without the replacement of the members infostate is a superset
\* of: a member found earlier stays even when a larger one arrives
FMVisitStepNoReplace(maximal_infostates, infostate) ==
    IF maximal_infostates = {} THEN {infostate}
    ELSE IF \E subinfostate \in maximal_infostates : InfoLe(subinfostate, infostate)
         THEN maximal_infostates
         ELSE maximal_infostates \cup {infostate}

\* one pass of the loop body for the member infostate
FMVisitStep(maximal_infostates, infostate) ==
    IF maximal_infostates = {} THEN {infostate}
    ELSE LET replaced == {sub \in maximal_infostates : sub \in YieldSubsets(infostate, TRUE)}
             after    == IF replaced = {} THEN maximal_infostates
                         ELSE (maximal_infostates \ replaced) \cup {infostate}
         IN  IF \E subinfostate \in after : InfoLe(subinfostate, infostate)
             THEN after
             ELSE after \cup {infostate}

\* test_d of the sanity check: the worlds each assignment of elem is paired with
WorldsOfAssignment(elem, g) == {p.w : p \in {q \in elem : AItems(q.g) = AItems(g)}}

\* the subsets the sanity check collects: every assignment is paired with the
\* same set of worlds
Uniform(elem) == \A p, q \in elem : WorldsOfAssignment(elem, p.g) = WorldsOfAssignment(elem, q.g)

TestingSet(maximal_infostates) ==
    {elem \in UNION {YieldSubsets(i, TRUE) : i \in maximal_infostates} : Uniform(elem)}

\* a sanity check that compares the two lengths only
SanityLengthOnly(maximal_infostates, S) ==
    Cardinality(TestingSet(maximal_infostates)) = Cardinality(S)

\* the sanity check lets find_maximal return
SanityHolds(maximal_infostates, S) ==
    /\ \A elem \in TestingSet(maximal_infostates) : elem \in S
    /\ Cardinality(TestingSet(maximal_infostates)) = Cardinality(S)

\* the loop over self.infostates, in the order the set yields its members
RECURSIVE FMLoop(_, _)
FMLoop(maximal_infostates, todo) ==
    IF todo = {} THEN maximal_infostates
    ELSE LET infostate == CHOOSE i \in todo : TRUE
         IN  FMLoop(FMVisitStep(maximal_infostates, infostate), todo \ {infostate})

FindMaximal(S) ==
    LET maximal_infostates == FMLoop({}, S)
    IN  IF SanityHolds(maximal_infostates, S) THEN State(maximal_infostates) ELSE Raise("AttributeError")

\* InformationState.worlds
Worlds(s) == {p.w : p \in s}

\* the test of exhaustification on a member s of the body's result
ExhKeeps(s, maximal_infostates) ==
    \A i \in maximal_infostates : Worlds(s) \subseteq Worlds(i) \/ Worlds(s) \cap Worlds(i) = {}

----------------------------------------------------------------------------
(* DynamicInquisitiveState.satisfy: the IDPL interpreter.                  *)

\* a negation that tests the member only, not its non-empty subsets
NegatedKeepsWhole(s, pos_inqstate) == InfoSubsistsInq(s, pos_inqstate) = {}

\* the test of negation on a member s
NegatedKeeps(s, pos_inqstate) ==
    ~\E subinfo \in YieldSubsets(s, FALSE) : InfoSubsistsInq(subinfo, pos_inqstate) # {}

\* the test of implication on a member: no subset has a descendant in the
\* antecedent that does not subsist in antecedent-then-consequent
ImpKeeps(infostate, antecedent, ant_consequent) ==
    \A elem \in YieldSubsets(infostate, TRUE) :
        \A descendant \in {i \in InfoSubsistsInq(elem, antecedent) : InfoLe(elem, i)} :
            InfoSubsistsInq(descendant, ant_consequent) # {}

\* the universal post-filter on a member of the body's result
AllKeeps(state, T, temp_referentsystem, peg_name, deeper) ==
    IF deeper > 0
    THEN \A indiv \in Dom : \E exindivs \in [1..deeper -> Dom] :
            {Poss(InqRS(T), Rebind(poss.g, <<indiv>> \o exindivs, peg_name, 1), poss.w) : poss \in state} \in T
    ELSE \A indiv \in Dom :
            {Poss(temp_referentsystem, AssignmentAddAt(AssignmentPurge(poss.g, peg_name), indiv, peg_name), poss.w) : poss \in state} \in T

RECURSIVE SatisfyInq(_, _)

SatisfyInq(S, f) ==
    CASE f.op \in {"app", "eq"} ->
            IF \E s \in S : \E p \in s : AtomVal(p, f) = "U" THEN Raise("Undefined")
            ELSE State({s \in S : \A p \in s : AtomVal(p, f) = "T"})
      [] f.op = "and" ->
            LET a == SatisfyInq(S, f.first)
            IN  IF a.tag # "state" THEN a ELSE SatisfyInq(a.st, f.second)
      [] f.op = "not" ->
            LET pos == SatisfyInq(S, f.term)
            IN  IF pos.tag # "state" THEN pos
                ELSE State({s \in S : NegatedKeeps(s, pos.st)})
      [] f.op = "exists" ->
            IF InqRSIsNone(S) THEN Raise("AttributeError")
            ELSE SatisfyInq(InqEnlarge(S, InqRS(S), f.variable), f.term)
      [] f.op = "or" ->
            IF S = {} THEN State({})
            ELSE LET a == SatisfyInq(S, f.first)
                 IN  IF a.tag # "state" THEN a
                     ELSE IF \A s \in S : InfoSubsistsInq(s, a.st) # {} THEN State(S)
                     ELSE LET n == SatisfyInq(S, Not(f.first))
                              b == SatisfyInq(n.st, f.second)
                          IN  IF b.tag # "state" THEN b
                              ELSE State({s \in S : InfoSubsistsInq(s, a.st) # {} \/ InfoSubsistsInq(s, b.st) # {}})
      [] f.op = "imp" ->
            LET antecedent == SatisfyInq(S, f.first)
            IN  IF antecedent.tag # "state" THEN antecedent
                ELSE LET ant_consequent == SatisfyInq(antecedent.st, f.second)
                     IN  IF ant_consequent.tag # "state" THEN ant_consequent
                         ELSE State({s \in S : ImpKeeps(s, antecedent.st, ant_consequent.st)})
      [] f.op = "all" ->
            IF InqRSIsNone(S) THEN Raise("AttributeError")
            ELSE LET temp_referentsystem == ReferentSystemAdd(InqRS(S), f.variable)
                     peg            == RSPeg(temp_referentsystem, f.variable)
                     body           == SatisfyInq(InqEnlarge(S, InqRS(S), f.variable), f.term)
                     contradictory  == InqRSIsNone(body.st)
                     number_pegs    == IF contradictory THEN 0 ELSE Cardinality(RSVars(InqRS(body.st)))
                     peg_name       == IF contradictory THEN 0 - 1 ELSE peg
                     deeper         == number_pegs - peg_name - 1
                 IN  IF body.tag # "state" THEN body
                     ELSE IF deeper < 0 THEN Raise("ValueError")
                     ELSE IF \E state \in body.st : \E poss \in state : \E i \in 0..deeper : peg_name + i >= Len(poss.g)
                          THEN Raise("IndexError")
                     ELSE State({state \in body.st : AllKeeps(state, body.st, temp_referentsystem, peg_name, deeper)})
      [] f.op = "bang" -> SatisfyInq(S, Not(Not(f.term)))
      [] f.op = "question" -> SatisfyInq(S, Or(f.term, Not(f.term)))
      [] f.op = "exh" ->
            LET temp_inqstate == SatisfyInq(S, f.term)
            IN  IF temp_inqstate.tag # "state" THEN temp_inqstate
                ELSE LET maximal_infostates == FindMaximal(temp_inqstate.st)
                     IN  IF IsRaise(maximal_infostates) THEN maximal_infostates
                         ELSE State({s \in temp_inqstate.st : ExhKeeps(s, maximal_infostates.st)})
      [] OTHER -> NoValue

\* DynamicInquisitiveState.evaluate
EvaluateInq(S, f) ==
    LET o == SatisfyInq(S, f) IN IF o.tag = "Undefined" THEN Sentinel ELSE o

\* one call S.evaluate(f): the receiver's infostates after it, and the result
InqEvaluateCall(S, f) == [self |-> S, ret |-> EvaluateInq(S, f)]

----------------------------------------------------------------------------
(* InquisitiveState.satisfy: the static (InqBQ) interpreter.  A member is   *)
(* an information state whose possibilities carry the empty referent system *)
(* and the empty assignment; g is an nltk assignment, variable -> individual.*)

\* InquisitiveState(domain, infostates, only_maximal=False) from sets of worlds
StaticInfo(worlds) == {Poss(<<>>, <<>>, w) : w \in worlds}

\* g after new_g.add(variable, indiv)
AsgAdd(g, variable, indiv) == [v \in DOMAIN g \cup {variable} |-> IF v = variable THEN indiv ELSE g[v]]

\* a negation that keeps a member when some non-empty subset of it is
\* outside the positive state, not only when all of them are
StaticNegatedKeepsSome(s, pos_inqstate) == \E subinfo \in YieldSubsets(s, FALSE) : subinfo \notin pos_inqstate

\* the test of static negation on a member
StaticNegatedKeeps(s, pos_inqstate) == ~\E subinfo \in YieldSubsets(s, FALSE) : subinfo \in pos_inqstate

\* an implication that looks at the member only, not at its subsets
StaticImpKeepsSelf(infostate, antecedent, ant_consequent) ==
    ~(infostate \in antecedent /\ infostate \notin ant_consequent)

\* an implication that one sub-state passing the test is enough for
StaticImpKeepsSome(infostate, antecedent, ant_consequent) ==
    \E elem \in YieldSubsets(infostate, TRUE) : ~(elem \in antecedent /\ elem \notin ant_consequent)

\* the test of static implication on a member
StaticImpKeeps(infostate, antecedent, ant_consequent) ==
    \A elem \in YieldSubsets(infostate, TRUE) : ~(elem \in antecedent /\ elem \notin ant_consequent)

\* the test of static exhaustification on a member
StaticExhKeeps(s, maximal_infostates) ==
    \A i \in maximal_infostates : s \subseteq i \/ s \cap i = {}

RECURSIVE SatisfyStatic(_, _, _), StaticExistsLoop(_, _, _, _, _), StaticAllLoop(_, _, _, _, _)

\* the loop of the existential over self.domain: the union of the results
StaticExistsLoop(S, f, g, i, infostates) ==
    IF i > Len(domOrder) THEN State(infostates)
    ELSE LET r == SatisfyStatic(S, f.term, AsgAdd(g, f.variable, domOrder[i]))
         IN  IF r.tag # "state" THEN r
             ELSE StaticExistsLoop(S, f, g, i + 1, infostates \cup r.st)

\* the loop of the universal: intersection_update while the set is non-empty,
\* else the set is taken from the result for this individual
StaticAllLoop(S, f, g, i, infostates) ==
    IF i > Len(domOrder) THEN State(infostates)
    ELSE LET r == SatisfyStatic(S, f.term, AsgAdd(g, f.variable, domOrder[i]))
         IN  IF r.tag # "state" THEN r
             ELSE StaticAllLoop(S, f, g, i + 1, IF infostates # {} THEN infostates \cap r.st ELSE r.st)

SatisfyStatic(S, f, g) ==
    CASE f.op \in {"app", "eq"} ->
            IF \E s \in S : \E p \in s : WorldSatisfy(p.w, g, f) = "U" THEN Raise("Undefined")
            ELSE State({StaticInfo(Worlds(s)) : s \in {i \in S : \A p \in i : WorldSatisfy(p.w, g, f) = "T"}})
      [] f.op = "and" ->
            IF S = {} THEN State({})
            ELSE LET a == SatisfyStatic(S, f.first, g)
                 IN  IF a.tag # "state" THEN a
                     ELSE IF \A s \in S : s \notin a.st THEN State({})
                     ELSE LET b == SatisfyStatic(S, f.second, g)
                          IN  IF b.tag # "state" THEN b
                              ELSE State({StaticInfo(Worlds(s)) : s \in {i \in S : i \in a.st /\ i \in b.st}})
      [] f.op = "not" ->
            LET pos_inqstate == SatisfyStatic(S, f.term, g)
            IN  IF pos_inqstate.tag # "state" THEN pos_inqstate
                ELSE State({StaticInfo(Worlds(s)) : s \in {i \in S : StaticNegatedKeeps(i, pos_inqstate.st)}})
      [] f.op = "exists" -> StaticExistsLoop(S, f, g, 1, {})
      [] f.op = "or" ->
            IF S = {} THEN State({})
            ELSE LET a == SatisfyStatic(S, f.first, g)
                 IN  IF a.tag # "state" THEN a
                     ELSE IF \A s \in S : s \in a.st THEN State({StaticInfo(Worlds(s)) : s \in S})
                     ELSE LET b == SatisfyStatic(S, f.second, g)
                          IN  IF b.tag # "state" THEN b
                              ELSE State({StaticInfo(Worlds(s)) : s \in {i \in S : i \in a.st \/ i \in b.st}})
      [] f.op = "imp" ->
            LET antecedent == SatisfyStatic(S, f.first, g)
            IN  IF antecedent.tag # "state" THEN antecedent
                ELSE LET ant_consequent == SatisfyStatic(S, f.second, g)
                     IN  IF ant_consequent.tag # "state" THEN ant_consequent
                         ELSE State({StaticInfo(Worlds(s)) : s \in {i \in S : StaticImpKeeps(i, antecedent.st, ant_consequent.st)}})
      [] f.op = "all" -> StaticAllLoop(S, f, g, 1, {})
      [] f.op = "bang" -> SatisfyStatic(S, Not(Not(f.term)), g)
      [] f.op = "question" -> SatisfyStatic(S, Or(f.term, Not(f.term)), g)
      [] f.op = "exh" ->
            LET temp_inqstate == SatisfyStatic(S, f.term, g)
            IN  IF temp_inqstate.tag # "state" THEN temp_inqstate
                ELSE LET maximal_infostates == FindMaximal(temp_inqstate.st)
                     IN  IF IsRaise(maximal_infostates) THEN maximal_infostates
                         ELSE State({StaticInfo(Worlds(s)) : s \in {i \in temp_inqstate.st : StaticExhKeeps(i, maximal_infostates.st)}})
      [] OTHER -> NoValue

\* InquisitiveState.evaluate
EvaluateStatic(S, f, g) ==
    LET o == SatisfyStatic(S, f, g) IN IF o.tag = "Undefined" THEN Sentinel ELSE o

\* an evaluate whose quantifier binds its variable in g itself, not in a copy
StaticEvaluateCallBinding(S, f, g) ==
    [self |-> S,
     g |-> IF f.op \in {"exists", "all"} THEN AsgAdd(g, f.variable, domOrder[Len(domOrder)]) ELSE g,
     ret |-> EvaluateStatic(S, f, g)]

\* one call S.evaluate(f, g): the receiver and g after it, and the result
StaticEvaluateCall(S, f, g) == [self |-> S, g |-> g, ret |-> EvaluateStatic(S, f, g)]

----------------------------------------------------------------------------
(* ReferentSystem and Assignment as objects: a call gives the receiver as  *)
(* the call leaves it (self) and what the call returns or raises (ret).    *)

\* ReferentSystem(variables): self.variables and the dict built from it
ReferentSystemInit(variables) == [variables |-> variables, items |-> RSItems(variables)]

\* list.remove(var): the list without its first occurrence of var
RECURSIVE ListRemove(_, _)
ListRemove(l, var) ==
    IF l = <<>> THEN <<>>
    ELSE IF Head(l) = var THEN Tail(l)
    ELSE <<Head(l)>> \o ListRemove(Tail(l), var)

\* one call self.add(variable) on a ReferentSystem
ReferentSystemAddCall(self, variable) ==
    [self |-> self, ret |-> State(ReferentSystemInit(ReferentSystemAdd(self.variables, variable)))]

\* one call self.purge(var) on a ReferentSystem: var is None for purge();
\* remove works on self.variables itself, the dict of the receiver stays
ReferentSystemPurgeCall(self, var) ==
    IF var = None THEN [self |-> self, ret |-> State(ReferentSystemInit(<<>>))]
    ELSE IF var \notin RSVars(self.variables) THEN [self |-> self, ret |-> Raise("ValueError")]
    ELSE LET variables == ListRemove(self.variables, var)
         IN  [self |-> [variables |-> variables, items |-> self.items],
              ret |-> State(ReferentSystemInit(variables))]

\* Assignment.__eq__ is the equality of the dicts
AssignmentEq(g, h) == AItems(g) = AItems(h)

\* temp_values.pop(int(var[1:])) for a peg given by its name "p<n>"
AssignmentPurgeName(g, n) == [i \in 1..(Len(g) - 1) |-> IF i <= n THEN g[i] ELSE g[i + 1]]

\* temp_values.insert(int(peg[1:]), value) for a peg given by its name "p<n>"
AssignmentAddName(g, value, n) ==
    IF n >= Len(g) THEN Append(g, value)
    ELSE [i \in 1..(Len(g) + 1) |-> IF i <= n THEN g[i] ELSE IF i = n + 1 THEN value ELSE g[i - 1]]

\* one call g.purge(var): var is absent (form None), a number (form "int")
\* or a peg name (form "str"); pop past the end of the list raises
AssignmentPurgeCall(g, form, n) ==
    [self |-> g,
     ret |-> IF form = None THEN State(AssignmentPurge(g, 0))
             ELSE IF form = "int" /\ n = 0 THEN State(AssignmentPurge(g, 0))
             ELSE IF n >= Len(g) THEN Raise("IndexError")
             ELSE IF form = "int" THEN State(AssignmentPurge(g, n))
             ELSE State(AssignmentPurgeName(g, n))]

\* one call g.add(value, peg), with the same three forms of peg
AssignmentAddCall(g, value, form, n) ==
    [self |-> g,
     ret |-> IF form = None THEN State(AssignmentAdd(g, value))
             ELSE IF form = "int" THEN State(AssignmentAddAt(g, value, n))
             ELSE State(AssignmentAddName(g, value, n))]

----------------------------------------------------------------------------
(* The constructors of InformationState and DynamicInquisitiveState over   *)
(* the lists they are handed, and expand, shrink and copy, which go        *)
(* through them.                                                           *)

\* a triple [r, g, w] of a list of possibilities: cls is the class of the
\* third component, w the valuation it holds when it is a World or a Valuation
Triple(r, g, cls, w) == [r |-> r, g |-> g, cls |-> cls, w |-> w]

\* [each.referentsystem, each.assignment, each.world] for a possibility
TripleOf(p) == Triple(p.r, p.g, "World", p.w)

\* tuple(x[0]): the keys of the referent system's dict, in insertion order
RECURSIVE RSKeys(_)
RSKeys(r) ==
    IF r = <<>> THEN <<>>
    ELSE LET front == SubSeq(r, 1, Len(r) - 1)
         IN  IF r[Len(r)] \in RSVars(front) THEN RSKeys(front) ELSE Append(RSKeys(front), r[Len(r)])

\* the assert that opens InformationState.__init__
SameReferentSystems(possibilities) ==
    Cardinality({RSKeys(possibilities[i].r) : i \in DOMAIN possibilities}) <= 1

\* the loop of InformationState.__init__: referentsystem is <<>> while
\* self.referentsystem is None or empty, world is the set holding the value
\* of the local variable world once it is bound
RECURSIVE InformationStateLoop(_, _, _, _, _)
InformationStateLoop(possibilities, i, referentsystem, world, acc) ==
    IF i > Len(possibilities) THEN State(acc)
    ELSE LET possibility == possibilities[i]
             rs == IF RSItems(referentsystem) = {} THEN possibility.r ELSE referentsystem
             w  == IF possibility.cls \in {"Valuation", "World"} THEN {possibility.w} ELSE world
         IN  IF w = {} THEN Raise("UnboundLocalError")
             ELSE LET poss == Poss(rs, possibility.g, CHOOSE v \in w : TRUE)
                  IN  InformationStateLoop(possibilities, i + 1, rs, w,
                          IF \E q \in acc : PossEq(q, poss) THEN acc ELSE acc \cup {poss})

\* InformationState(domain, possibilities)
InformationStateInit(possibilities) ==
    IF ~SameReferentSystems(possibilities) THEN Raise("AssertionError")
    ELSE InformationStateLoop(possibilities, 1, <<>>, {}, {})

\* the possibilities of a state in the order its frozenset yields them; they
\* carry one referent system and hold Worlds, so the order does not show in
\* what the constructor builds from them
RECURSIVE PossList(_)
PossList(s) ==
    IF s = {} THEN <<>>
    ELSE LET each == CHOOSE p \in s : TRUE
         IN  <<TripleOf(each)>> \o PossList(s \ {each})

\* one call s.expand(possibility)
InfoExpand(s, possibility) ==
    [self |-> s, ret |-> InformationStateInit(Append(PossList(s), possibility))]

\* a shrink that drops every possibility that holds the world of the
\* argument, whatever its assignment
InfoShrinkByWorld(s, possibility) ==
    [self |-> s,
     ret |-> IF possibility.cls \notin {"Valuation", "World"} THEN Raise("TypeError")
             ELSE InformationStateInit(PossList({each \in s : each.w # possibility.w}))]

\* one call s.shrink(possibility)
InfoShrink(s, possibility) ==
    [self |-> s,
     ret |-> IF possibility.cls \notin {"Valuation", "World"} THEN Raise("TypeError")
             ELSE InformationStateInit(PossList(
                      {each \in s : ~PossEq(Poss(possibility.r, possibility.g, possibility.w), each)}))]

\* the checks of the loop of DynamicInquisitiveState.__init__ over the list
\* infostates: FALSE when one of them raises; referentsystem is <<>> while
\* the local variable is None
RECURSIVE DISInitLoop(_, _, _)
DISInitLoop(infostates, i, referentsystem) ==
    IF i > Len(infostates) THEN TRUE
    ELSE LET infostate == infostates[i]
             info_rs   == IF InfoRSIsNone(infostate) THEN <<>> ELSE InfoRS(infostate)
         IN  IF infostate # {} /\ referentsystem # <<>> /\ RSItems(referentsystem) # RSItems(info_rs) THEN FALSE
             ELSE IF referentsystem # <<>> /\ info_rs # <<>> /\ RSItems(info_rs) # RSItems(referentsystem) THEN FALSE
             ELSE DISInitLoop(infostates, i + 1, IF info_rs # <<>> THEN info_rs ELSE referentsystem)

\* DynamicInquisitiveState(infostates, only_maximal) for a list infostates
DynamicInquisitiveStateInit(infostates, only_maximal) ==
    IF DISInitLoop(infostates, 1, <<>>)
    THEN State(DISInit({infostates[i] : i \in DOMAIN infostates}, only_maximal))
    ELSE Raise("ValueError")

\* one call S.copy() on an InquisitiveState: the members are rebuilt from
\* their sets of worlds, with only_maximal=False
StaticCopy(S) == [self |-> S, ret |-> State(DISInit({StaticInfo(Worlds(s)) : s \in S}, FALSE))]

----------------------------------------------------------------------------
(* The inputs of the runs.                                                 *)

\* the longest referent system a state taken up as the next receiver may have
MaxPegs == 3

\* how many times the caller goes on with the result of a call
MaxCalls == 1

\* r1 and g1 of the examples
R1 == <<"x", "y">>
G1 == <<"b1", "c1">>

\* formulas of the surface syntax, with the unknown predicate foo
Atoms ==
    {App("sleep", "mary"), App("sleep", "john"), App("dance", "john"),
     App("sleep", "x"), App("sleep", "z"), App("foo", "john"), Eq("x", "john")}

BinAtoms == {App("sleep", "mary"), App("dance", "john"), App("foo", "john")}

\* the classical equivalences of examples_cormod_dpl.py
E0a == Not(And(Not(App("sleep", "mary")), Not(App("dance", "john"))))
E1a == Or(App("sleep", "mary"), App("dance", "john"))
E0b == Imp(App("sleep", "mary"), App("dance", "john"))
E1b == Or(Not(App("sleep", "mary")), App("dance", "john"))

AllSleep    == All("z", App("sleep", "z"))
AllNotSleep == All("z", Not(App("sleep", "z")))

Formulas ==
    Atoms
    \cup {Not(a) : a \in Atoms}
    \cup {And(a, b) : a, b \in BinAtoms}
    \cup {Or(a, b) : a, b \in BinAtoms}
    \cup {Imp(a, b) : a, b \in BinAtoms}
    \cup {Exists("z", a) : a \in Atoms \cup {Not(App("sleep", "z"))}}
    \cup {All("z", a) : a \in Atoms \cup {Not(App("sleep", "z"))}}
    \cup {E0a, E1a, E0b, E1b,
          All("z", And(App("sleep", "z"), App("foo", "z"))),
          Exists("z", Or(App("sleep", "z"), Not(App("sleep", "z")))),
          And(App("sleep", "z"), Eq("x", "john")), Or(Eq("x", "john"), App("sleep", "mary")),
          Imp(App("sleep", "x"), App("sleep", "z")),
          Not(All("z", App("sleep", "z")))}
    \cup {Not(Exists(v, App(P, v))) : v \in {"z", "x", "v"}, P \in {"sleep", "dance"}}
    \cup {Not(Exists("z", Not(App("sleep", "z")))), Not(Imp(App("sleep", "mary"), App("dance", "john")))}

\* InformationState(dom, [[r, g, w] ...]) with one referent system
InfoOver(r, gs, ws) == {Poss(r, g, w) : g \in gs, w \in ws}

\* possibilities under r1 whose assignments have fewer or more values than r1
\* has variables
OddPoss == InfoOver(R1, {G1, <<"b1">>, <<"b1", "c1", "c1">>}, {[sleep |-> {"c1"}, dance |-> {"b1"}], [sleep |-> {}, dance |-> Dom]})

InfoInputs ==
    {InfoOver(R1, {G1}, W) : W \in SUBSET Vals}
    \cup {InfoOver(R1, {G1}, W) : W \in SUBSET SleepVals}
    \cup {InfoOver(<<>>, {<<>>}, W) : W \in {{}, {[sleep |-> {"c1"}]}, SleepVals}}
    \cup {S \in SUBSET OddPoss : Cardinality(S) \in 1..2}

Orders(S) == {q \in [1..Cardinality(S) -> S] : \A i, j \in 1..Cardinality(S) : q[i] = q[j] => i = j}

\* nltk.Assignment(dom): no variable bound
NoAssignment == [v \in {} |-> "b1"]

NoCmp == [t |-> {}, le |-> FALSE, ge |-> FALSE, eq |-> FALSE, made |-> FALSE]
NoFM  == [pc |-> "idle", todo |-> {}, max |-> {}]

\* a call as op records it: its name, the value or variable it is given
\* (None when absent), and the form and the number of the peg it is given
\* (None and 0 when absent)
Call(name, value, form, peg) == [name |-> name, value |-> value, form |-> form, peg |-> peg]

NoRefSys == ReferentSystemInit(<<>>)
NoArgs   == [cls |-> None, possibilities |-> <<>>, infostates |-> <<>>, only_maximal |-> FALSE]

\* no ReferentSystem or Assignment receiver, no constructor argument, no call
NoObjects ==
    /\ refsys = NoRefSys
    /\ assignment = <<>>
    /\ args = NoArgs
    /\ op = <<>>
    /\ result = NoResult

InitInfo ==
    /\ kind = "info"
    /\ domOrder \in Orders(Dom)
    /\ info \in InfoInputs
    /\ inq = {}
    /\ asg = NoAssignment
    /\ lastf = NoFormula
    /\ res = NoResult
    /\ cmp = NoCmp
    /\ fm = NoFM
    /\ calls = 0
    /\ NoObjects

----------------------------------------------------------------------------
(* The operations on an InformationState.                                  *)

\* no call has been made on the receiver yet
Idle == res = NoResult /\ ~cmp.made /\ fm.pc = "idle" /\ op = <<>>

\* s.evaluate(f)
InfoEvaluate ==
    /\ kind = "info"
    /\ Idle
    /\ \E f \in Formulas :
          LET call == InfoEvaluateCall(info, f)
          IN  /\ lastf' = f
              /\ info' = call.self
              /\ res' = call.ret
    /\ cmp' = NoCmp
    /\ UNCHANGED <<objvars, kind, domOrder, inq, asg, fm, calls>>

\* the caller goes on with the state the last call returned
InfoContinue ==
    /\ kind = "info"
    /\ res.tag = "state"
    /\ calls < MaxCalls
    /\ ~InfoRSIsNone(res.st) => Len(InfoRS(res.st)) <= MaxPegs
    /\ info' = res.st
    /\ lastf' = NoFormula
    /\ res' = NoResult
    /\ calls' = calls + 1
    /\ UNCHANGED <<objvars, kind, domOrder, inq, asg, cmp, fm>>

\* s <= t, t <= s and s == t for another state t
InfoCompare ==
    /\ kind = "info"
    /\ Idle
    /\ \E t \in InfoInputs :
          cmp' = [t |-> t, le |-> InfoLe(info, t), ge |-> InfoLe(t, info),
                  eq |-> InfoEq(info, t), made |-> TRUE]
    /\ lastf' = NoFormula
    /\ res' = NoResult
    /\ UNCHANGED <<objvars, kind, domOrder, info, inq, asg, fm, calls>>

\* the triples handed to expand and shrink: the possibilities of the state
\* itself, as Worlds or as Valuations, and others under its referent system
\* (under the empty one and under r1 when the state has none)
ExpandInputs(s) ==
    {Triple(p.r, p.g, cls, p.w) : p \in s, cls \in {"World", "Valuation"}}
    \cup {Triple(r, g, "Valuation", w) :
            r \in (IF InfoRSIsNone(s) THEN {<<>>, R1} ELSE {InfoRS(s)}),
            g \in {G1, <<"b1">>},
            w \in {[sleep |-> {"c1"}, dance |-> {"b1"}], [sleep |-> {"c1"}]}}

\* s.expand(possibility)
Expand ==
    /\ kind = "info"
    /\ Idle
    /\ \E possibility \in ExpandInputs(info) :
          LET call == InfoExpand(info, possibility)
          IN  /\ info' = call.self
              /\ result' = call.ret
              /\ args' = [NoArgs EXCEPT !.possibilities = <<possibility>>]
    /\ op' = <<Call("expand", None, None, 0)>>
    /\ UNCHANGED <<kind, domOrder, inq, asg, lastf, res, cmp, fm, calls, refsys, assignment>>

\* s.shrink(possibility)
Shrink ==
    /\ kind = "info"
    /\ Idle
    /\ \E possibility \in ExpandInputs(info) :
          LET call == InfoShrink(info, possibility)
          IN  /\ info' = call.self
              /\ result' = call.ret
              /\ args' = [NoArgs EXCEPT !.possibilities = <<possibility>>]
    /\ op' = <<Call("shrink", None, None, 0)>>
    /\ UNCHANGED <<kind, domOrder, inq, asg, lastf, res, cmp, fm, calls, refsys, assignment>>

NextInfo == InfoEvaluate \/ InfoContinue \/ InfoCompare \/ Expand \/ Shrink

SpecInfo == InitInfo /\ [][NextInfo]_vars

----------------------------------------------------------------------------
(* The operations on a DynamicInquisitiveState.                            *)

\* the most worlds an alternative of a constructed inquisitive state has
MaxWorlds == 2

\* the most members a state find_maximal is stepped through may have
MaxFM == 10

G2 == <<"c1", "b1">>

W1 == [sleep |-> {"c1"}, dance |-> {"b1"}]
W2 == [sleep |-> {}, dance |-> Dom]

\* the lists of information states DynamicInquisitiveState(...) is built from
InqInputs ==
    {{InfoOver(R1, {G1}, W)} : W \in {V \in SUBSET Vals : Cardinality(V) \in 1..MaxWorlds}}
    \cup {{InfoOver(R1, {G1}, W)} : W \in {V \in SUBSET SleepVals : Cardinality(V) \in 1..MaxWorlds}}
    \cup {{InfoOver(R1, {G1}, {W1}), InfoOver(R1, {G1}, {W2, [sleep |-> Dom, dance |-> {}]})}}
    \cup {{}, {{}}, {InfoOver(<<>>, {<<>>}, {[sleep |-> {"c1"}]})}}
    \cup {{{Poss(R1, G1, W1), Poss(R1, G2, W2)}},
          {{Poss(R1, G1, W1), Poss(R1, <<"b1", "c1", "c1">>, W1)}}}

\* a list for only_maximal=False: the subsets of the product of two
\* assignments and two worlds in which both assignments meet the same worlds
InqMemberInputs == {{e \in SUBSET InfoOver(R1, {G1, G2}, {W1, W2}) : Uniform(e)}}

InqAtoms ==
    {App("sleep", "mary"), App("dance", "john"), App("sleep", "x"), App("sleep", "z"),
     App("foo", "john"), Eq("x", "john")}

InqFormulas ==
    InqAtoms
    \cup {Not(a) : a \in InqAtoms}
    \cup {Bang(a) : a \in InqAtoms}
    \cup {Question(a) : a \in InqAtoms}
    \cup {Exh(a) : a \in InqAtoms}
    \cup {And(a, b) : a, b \in BinAtoms}
    \cup {Or(a, b) : a, b \in BinAtoms}
    \cup {Imp(a, b) : a, b \in BinAtoms}
    \cup {Exists("z", a) : a \in InqAtoms \cup {Not(App("sleep", "z"))}}
    \cup {All("z", a) : a \in InqAtoms \cup {Not(App("sleep", "z"))}}
    \cup {Exh(Question(App("sleep", "mary"))), Exh(Exists("z", App("sleep", "z"))),
          Not(And(App("sleep", "mary"), App("foo", "john"))),
          Exists("x", App("sleep", "x")), All("x", App("sleep", "x")),
          All("z", Exists("w", App("sleep", "w"))),
          Exists("z", Exists("w", App("sleep", "z"))),
          Not(Exists("z", App("sleep", "z"))), Not(All("z", App("sleep", "z")))}

\* nested formulas, evaluated on the states as they are constructed
InqNested ==
    {E0a, E0b, Not(Imp(App("sleep", "mary"), App("dance", "john"))),
     Imp(Not(App("sleep", "x")), App("sleep", "mary")),
     And(Not(App("sleep", "mary")), App("sleep", "x")),
     Imp(App("sleep", "mary"), And(App("sleep", "x"), App("foo", "john"))),
     Bang(Or(App("sleep", "mary"), App("dance", "john"))), Bang(Question(App("sleep", "mary"))),
     Bang(Not(App("sleep", "x"))), Bang(Imp(App("sleep", "mary"), App("dance", "john"))),
     Question(And(App("sleep", "mary"), App("dance", "john"))), Question(Not(App("sleep", "mary"))),
     Question(Or(App("sleep", "x"), App("sleep", "mary")))}

InitInq ==
    /\ kind = "inq"
    /\ domOrder = <<"b1", "c1">>
    /\ info = {}
    /\ \/ \E alternatives \in InqInputs : inq = DISInit(alternatives, TRUE)
       \/ \E members \in InqMemberInputs : inq = DISInit(members, FALSE)
    /\ asg = NoAssignment
    /\ lastf = NoFormula
    /\ res = NoResult
    /\ cmp = NoCmp
    /\ fm = NoFM
    /\ calls = 0
    /\ NoObjects

\* S.evaluate(f)
InqEvaluate ==
    /\ kind = "inq"
    /\ Idle
    /\ \E f \in InqFormulas \cup (IF calls = 0 THEN InqNested ELSE {}) :
          LET call == InqEvaluateCall(inq, f)
          IN  /\ lastf' = f
              /\ inq' = call.self
              /\ res' = call.ret
    /\ UNCHANGED <<objvars, kind, domOrder, info, asg, cmp, fm, calls>>

\* the caller goes on with the state the last call returned
InqContinue ==
    /\ kind = "inq"
    /\ res.tag = "state"
    /\ calls < MaxCalls
    /\ ~InqRSIsNone(res.st) => Len(InqRS(res.st)) <= MaxPegs
    /\ inq' = res.st
    /\ lastf' = NoFormula
    /\ res' = NoResult
    /\ calls' = calls + 1
    /\ UNCHANGED <<objvars, kind, domOrder, info, asg, cmp, fm>>

\* S.discard(infostate) for a member
Discard ==
    /\ kind = "inq"
    /\ Idle
    /\ calls < MaxCalls
    /\ \E infostate \in inq : inq' = inq \ {infostate}
    /\ calls' = calls + 1
    /\ UNCHANGED <<objvars, kind, domOrder, info, asg, lastf, res, cmp, fm>>

\* S.find_maximal() is entered
FMStart ==
    /\ kind = "inq"
    /\ Idle
    /\ Cardinality(inq) <= MaxFM
    /\ fm' = [pc |-> "loop", todo |-> inq, max |-> {}]
    /\ UNCHANGED <<objvars, kind, domOrder, info, inq, asg, lastf, res, cmp, calls>>

\* one turn of the loop, for whichever member the set yields next
FMVisit ==
    /\ fm.pc = "loop"
    /\ \E infostate \in fm.todo :
          fm' = [pc |-> "loop", todo |-> fm.todo \ {infostate},
                 max |-> FMVisitStep(fm.max, infostate)]
    /\ UNCHANGED <<objvars, kind, domOrder, info, inq, asg, lastf, res, cmp, calls>>

\* the sanity check after the loop: return the maximal members or raise
FMCheck ==
    /\ fm.pc = "loop"
    /\ fm.todo = {}
    /\ fm' = [pc |-> IF SanityHolds(fm.max, inq) THEN "returned" ELSE "raised",
              todo |-> {}, max |-> fm.max]
    /\ UNCHANGED <<objvars, kind, domOrder, info, inq, asg, lastf, res, cmp, calls>>

NextInq == InqEvaluate \/ InqContinue \/ Discard \/ FMStart \/ FMVisit \/ FMCheck

SpecInq == InitInq /\ [][NextInq]_vars

----------------------------------------------------------------------------
(* The operations on a static InquisitiveState.                            *)

\* InquisitiveState(dom, infostates): the lists of sets of worlds it is built from
StaticInputs ==
    {{StaticInfo(W)} : W \in SUBSET Vals}
    \cup {{StaticInfo(W)} : W \in SUBSET SleepVals}
    \cup {{StaticInfo({W1}), StaticInfo({W2, [sleep |-> Dom, dance |-> {}]})}, {}}

\* g1 of the tests, and the assignment that binds nothing
AsgInputs == {[x |-> "b1", y |-> "c1"], NoAssignment}

StaticFormulas ==
    InqFormulas
    \cup {Bang(Question(a)) : a \in InqAtoms}
    \cup {All("z", Or(App("sleep", "z"), App("sleep", "mary"))),
          Exists("z", And(App("sleep", "z"), App("foo", "z"))),
          Or(App("sleep", "z"), App("sleep", "mary")),
          Imp(App("sleep", "mary"), App("sleep", "john"))}

InitStatic ==
    /\ kind = "static"
    /\ domOrder \in Orders(Dom)
    /\ info = {}
    /\ \E alternatives \in StaticInputs : inq = DISInit(alternatives, TRUE)
    /\ asg \in AsgInputs
    /\ lastf = NoFormula
    /\ res = NoResult
    /\ cmp = NoCmp
    /\ fm = NoFM
    /\ calls = 0
    /\ NoObjects

\* S.evaluate(f, g)
StaticEvaluate ==
    /\ kind = "static"
    /\ Idle
    /\ \E f \in StaticFormulas :
          LET call == StaticEvaluateCall(inq, f, asg)
          IN  /\ lastf' = f
              /\ inq' = call.self
              /\ asg' = call.g
              /\ res' = call.ret
    /\ UNCHANGED <<objvars, kind, domOrder, info, cmp, fm, calls>>

\* the caller goes on with the state the last call returned
StaticContinue ==
    /\ kind = "static"
    /\ res.tag = "state"
    /\ calls < MaxCalls
    /\ inq' = res.st
    /\ lastf' = NoFormula
    /\ res' = NoResult
    /\ calls' = calls + 1
    /\ UNCHANGED <<objvars, kind, domOrder, info, asg, cmp, fm>>

\* the same S.evaluate(f, g) once more, with g as the first call left it
StaticEvaluateAgain ==
    /\ kind = "static"
    /\ res.tag # "nocall"
    /\ op = <<>>
    /\ LET call == StaticEvaluateCall(inq, lastf, asg)
       IN  /\ inq' = call.self
           /\ asg' = call.g
           /\ result' = call.ret
    /\ op' = <<Call("evaluate", None, None, 0)>>
    /\ UNCHANGED <<kind, domOrder, info, lastf, res, cmp, fm, calls, refsys, assignment, args>>

\* S.copy()
Copy ==
    /\ kind = "static"
    /\ Idle
    /\ LET call == StaticCopy(inq)
       IN  /\ inq' = call.self
           /\ result' = call.ret
    /\ op' = <<Call("copy", None, None, 0)>>
    /\ UNCHANGED <<kind, domOrder, info, asg, lastf, res, cmp, fm, calls, refsys, assignment, args>>

NextStatic == StaticEvaluate \/ StaticContinue \/ StaticEvaluateAgain \/ Copy

SpecStatic == InitStatic /\ [][NextStatic]_vars

\* InquisitiveState(dom, infostates, only_maximal=False): the members are
\* listed one by one, over three of the worlds
StaticListed == SUBSET {StaticInfo(W) : W \in SUBSET {W1, W2, [sleep |-> Dom, dance |-> {}]}}

InitStaticListed ==
    /\ kind = "static"
    /\ domOrder \in Orders(Dom)
    /\ info = {}
    /\ \E infostates \in StaticListed : inq = DISInit(infostates, FALSE)
    /\ asg \in AsgInputs
    /\ lastf = NoFormula
    /\ res = NoResult
    /\ cmp = NoCmp
    /\ fm = NoFM
    /\ calls = 0
    /\ NoObjects

SpecStaticListed == InitStaticListed /\ [][NextStatic]_vars

----------------------------------------------------------------------------
(* The operations on a ReferentSystem and on an Assignment.                *)

\* the most calls made one after the other on a ReferentSystem or Assignment
MaxChain == 2

\* no state receiver
NoStates ==
    /\ domOrder = <<"b1", "c1">>
    /\ info = {}
    /\ inq = {}
    /\ asg = NoAssignment
    /\ lastf = NoFormula
    /\ res = NoResult
    /\ cmp = NoCmp
    /\ fm = NoFM
    /\ calls = 0

\* x, y, x is r1 after exists x has bound x again
RefSysInputs == {<<>>, <<"x">>, R1, <<"x", "y", "x">>}

RefSysNames == {"x", "y", "z"}

AssignmentInputs == {<<>>, <<"b1">>, G1, <<"b1", "c1", "c1">>}

\* the forms a peg is given in, with its number: absent, a number, a name
PegInputs == {<<None, 0>>} \cup ({"int", "str"} \X (0..MaxPegs))

InitRefSys ==
    /\ kind = "refsys"
    /\ NoStates
    /\ \E variables \in RefSysInputs : refsys = ReferentSystemInit(variables)
    /\ assignment = <<>>
    /\ args = NoArgs
    /\ op = <<>>
    /\ result = NoResult

InitAssignment ==
    /\ kind = "assignment"
    /\ NoStates
    /\ refsys = NoRefSys
    /\ assignment \in AssignmentInputs
    /\ args = NoArgs
    /\ op = <<>>
    /\ result = NoResult

\* r.add(variable) on the receiver
RefAdd ==
    /\ kind = "refsys"
    /\ Len(op) < MaxChain
    /\ \E variable \in RefSysNames :
          LET call == ReferentSystemAddCall(refsys, variable)
          IN  /\ refsys' = call.self
              /\ result' = call.ret
              /\ op' = Append(op, Call("add", variable, None, 0))
    /\ UNCHANGED <<kind, domOrder, info, inq, asg, lastf, res, cmp, fm, calls, assignment, args>>

\* r.purge(var) or r.purge() on the receiver
RefPurge ==
    /\ kind = "refsys"
    /\ Len(op) < MaxChain
    /\ \E var \in RefSysNames \cup {None} :
          LET call == ReferentSystemPurgeCall(refsys, var)
          IN  /\ refsys' = call.self
              /\ result' = call.ret
              /\ op' = Append(op, Call("purge", var, None, 0))
    /\ UNCHANGED <<kind, domOrder, info, inq, asg, lastf, res, cmp, fm, calls, assignment, args>>

\* the Assignment the next call of a chain is made on: the receiver, then
\* what the call before returned
ChainTarget == IF op = <<>> THEN assignment ELSE result.st

\* g.add(value, peg), on the receiver or on the Assignment the last call returned
CallAdd ==
    /\ kind = "assignment"
    /\ Len(op) < MaxChain
    /\ op # <<>> => result.tag = "state"
    /\ \E value \in Dom, peg \in PegInputs :
          LET call == AssignmentAddCall(ChainTarget, value, peg[1], peg[2])
          IN  /\ assignment' = IF op = <<>> THEN call.self ELSE assignment
              /\ result' = call.ret
              /\ op' = Append(op, Call("add", value, peg[1], peg[2]))
    /\ UNCHANGED <<kind, domOrder, info, inq, asg, lastf, res, cmp, fm, calls, refsys, args>>

\* g.purge(var), on the receiver or on the Assignment the last call returned
CallPurge ==
    /\ kind = "assignment"
    /\ Len(op) < MaxChain
    /\ op # <<>> => result.tag = "state"
    /\ \E peg \in PegInputs :
          LET call == AssignmentPurgeCall(ChainTarget, peg[1], peg[2])
          IN  /\ assignment' = IF op = <<>> THEN call.self ELSE assignment
              /\ result' = call.ret
              /\ op' = Append(op, Call("purge", None, peg[1], peg[2]))
    /\ UNCHANGED <<kind, domOrder, info, inq, asg, lastf, res, cmp, fm, calls, refsys, args>>

InitValues == InitRefSys \/ InitAssignment

NextValues == RefAdd \/ RefPurge \/ CallAdd \/ CallPurge

SpecValues == InitValues /\ [][NextValues]_vars

----------------------------------------------------------------------------
(* The constructors, on lists of triples and lists of information states.  *)

\* the longest list a constructor is handed
MaxList == 2

TripleInputs ==
    {Triple(r[1], r[2], cls, w) :
        r \in {<<<<>>, <<>>>>, <<R1, G1>>, <<R1, G2>>, <<(<<"y", "x">>), G1>>,
               <<(<<"x", "y", "x">>), (<<"b1", "c1", "b1">>)>>},
        cls \in {"World", "Valuation"}, w \in {W1, W2}}
    \cup {Triple(R1, G1, "str", W1)}

InfoStateInputs ==
    {{}, InfoOver(<<>>, {<<>>}, {W1}), InfoOver(R1, {G1}, {W1}), InfoOver(R1, {G1, G2}, {W1, W2}),
     InfoOver(<<"x">>, {<<"b1">>}, {W1}), InfoOver(<<"x", "y", "x">>, {<<"b1", "c1", "b1">>}, {W2})}

\* the lists of at most MaxList members of S
Lists(S) == UNION {[1..n -> S] : n \in 0..MaxList}

InitConstruct ==
    /\ kind = "construct"
    /\ NoStates
    /\ refsys = NoRefSys
    /\ assignment = <<>>
    /\ \/ \E possibilities \in Lists(TripleInputs) :
             args = [cls |-> "InformationState", possibilities |-> possibilities,
                     infostates |-> <<>>, only_maximal |-> FALSE]
       \/ \E infostates \in Lists(InfoStateInputs), only_maximal \in BOOLEAN :
             args = [cls |-> "DynamicInquisitiveState", possibilities |-> <<>>,
                     infostates |-> infostates, only_maximal |-> only_maximal]
    /\ op = <<>>
    /\ result = NoResult

\* InformationState(dom, possibilities)
ConstructInformationState ==
    /\ kind = "construct"
    /\ args.cls = "InformationState"
    /\ op = <<>>
    /\ result' = InformationStateInit(args.possibilities)
    /\ op' = <<Call("InformationState", None, None, 0)>>
    /\ UNCHANGED <<kind, domOrder, info, inq, asg, lastf, res, cmp, fm, calls, refsys, assignment, args>>

\* DynamicInquisitiveState(infostates, only_maximal)
ConstructDynamicInquisitiveState ==
    /\ kind = "construct"
    /\ args.cls = "DynamicInquisitiveState"
    /\ op = <<>>
    /\ result' = DynamicInquisitiveStateInit(args.infostates, args.only_maximal)
    /\ op' = <<Call("DynamicInquisitiveState", None, None, 0)>>
    /\ UNCHANGED <<kind, domOrder, info, inq, asg, lastf, res, cmp, fm, calls, refsys, assignment, args>>

NextConstruct == ConstructInformationState \/ ConstructDynamicInquisitiveState

SpecConstruct == InitConstruct /\ [][NextConstruct]_vars

----------------------------------------------------------------------------
(* Any of the kinds of receiver.                                           *)

Init == InitInfo \/ InitInq \/ InitStatic \/ InitValues \/ InitConstruct

Next == NextInfo \/ NextInq \/ NextStatic \/ NextValues \/ NextConstruct

Spec == Init /\ [][Next]_vars

----------------------------------------------------------------------------
(* Properties.                                                             *)

\* every subset of the possibilities of a member is a member
DownwardClosed(S) == \A s \in S : \A e \in SUBSET s : e \in S

\* the members that are a proper subset of no other member
MaximalMembers(S) == {m \in S : ~\E n \in S : m \subseteq n /\ m # n}

\* find_maximal has ended, by return or by raise
FMDone == kind = "inq" /\ fm.pc \in {"returned", "raised"}

\* an evaluate call has ended
Called == res.tag # "nocall"

\* the formula applies the predicate foo, which no valuation defines
RECURSIVE MentionsFoo(_)
MentionsFoo(f) ==
    CASE f.op = "app" -> f.pred = "foo"
      [] f.op = "eq" -> FALSE
      [] f.op \in {"and", "or", "imp"} -> MentionsFoo(f.first) \/ MentionsFoo(f.second)
      [] OTHER -> MentionsFoo(f.term)

\* the variables of the referent system of an information state
InfoVars(s) == IF InfoRSIsNone(s) THEN {} ELSE RSVars(InfoRS(s))

\* two results are equal: equal states, or the same sentinel
SameResult(a, b) ==
    /\ a.tag \in {"state", "'Undefined'"}
    /\ a.tag = b.tag
    /\ InfoEq(a.st, b.st)

\* sleep and dance are complementary in every world of the state
Complementary(s) == \A p \in s : p.w \in Vals

\* C1: evaluate on a downward-closed dynamic inquisitive state returns a
\* downward-closed state (with the constructor's closure, every state
\* reached by evaluate calls is downward-closed).
C1_EvaluateKeepsDownwardClosed ==
    (kind = "inq" /\ res.tag = "state" /\ DownwardClosed(inq)) => DownwardClosed(res.st)

\* C2: evaluate of a formula that applies an unknown symbol anywhere in it
\* returns the sentinel 'Undefined', for each of the three kinds of state.
C2_UnknownSymbolGivesSentinel ==
    (Called /\ MentionsFoo(lastf)) => res = Sentinel

\* C3: evaluate on an InformationState returns an InformationState or the
\* sentinel 'Undefined': never no value, never another error.
C3_StateOrSentinel ==
    (kind = "info" /\ Called) => res.tag \in {"state", "'Undefined'"}

C5_FindMaximalReturns ==
    (FMDone /\ DownwardClosed(inq)) => fm.pc = "returned"

C7_FindMaximalExact ==
    (kind = "inq" /\ fm.pc = "returned") => fm.max = MaximalMembers(inq)

\* find_maximal returned two or more alternatives out of at least five members
C7_Witness ==
    /\ fm.pc = "returned"
    /\ Cardinality(fm.max) >= 2
    /\ Cardinality(inq) >= 5

\* C8: on a state whose worlds make sleep and dance complementary,
\* -(-sleep(mary) & -dance(john)) evaluates to what sleep(mary) | dance(john)
\* does, and sleep(mary) -> dance(john) to what -sleep(mary) | dance(john) does.
C8_ClassicalEquivalences ==
    (kind = "info" /\ Called /\ Complementary(info)) =>
        /\ lastf = E0a => SameResult(res, EvaluateInfo(info, E1a))
        /\ lastf = E0b => SameResult(res, EvaluateInfo(info, E1b))

\* the implication was evaluated on a state it removes a possibility from
C8_Witness ==
    /\ kind = "info"
    /\ lastf = E0b
    /\ Complementary(info)
    /\ res.tag = "state"
    /\ res.st # {}
    /\ res.st # info

\* C9: on a state whose referent system does not hold z, all z. sleep(z) keeps
\* exactly the possibilities whose world makes sleep true of every individual
\* and all z. -sleep(z) those whose world makes it true of none.
C9_UniversalKeepsExactly ==
    (kind = "info" /\ Called /\ "z" \notin InfoVars(info)) =>
        /\ lastf = AllSleep => res = State({p \in info : p.w.sleep = Dom})
        /\ lastf = AllNotSleep => res = State({p \in info : p.w.sleep = {}})

\* C10: s <= t and t <= s imply s == t.
C10_Antisymmetric ==
    (kind = "info" /\ cmp.made /\ cmp.le /\ cmp.ge) => cmp.eq

\* C11: add and purge on a ReferentSystem leave the receiver as it was: it
\* maps the same variables to the same pegs, and a later add(w) on it yields
\* the referent system it would have yielded before the call.
C11_ReferentSystemUnchanged ==
    [][kind = "refsys" =>
          /\ refsys'.items = refsys.items
          /\ \A w \in RefSysNames :
                ReferentSystemAddCall(refsys', w).ret = ReferentSystemAddCall(refsys, w).ret]_vars

\* C12: for an Assignment A and an individual x, A.add(x).purge(p) with p
\* the peg just added equals A, A.purge().add(x) has length 1 and equals
\* Assignment([x]), and A is unchanged by add and purge.
C12_AddPurgeRoundTrip ==
    [][kind = "assignment" =>
          /\ assignment' = assignment
          /\ \A x \in Dom, form \in {"int", "str"} :
                op' = <<Call("add", x, None, 0), Call("purge", None, form, Len(assignment))>>
                    => (result'.tag = "state" /\ AssignmentEq(result'.st, assignment))
          /\ \A x \in Dom :
                op' = <<Call("purge", None, None, 0), Call("add", x, None, 0)>>
                    => (result'.tag = "state" /\ Len(result'.st) = 1 /\ AssignmentEq(result'.st, <<x>>))]_vars

\* the peg just added to g1 was purged again, by its number or by its name
C12_Witness ==
    /\ kind = "assignment"
    /\ assignment = G1
    /\ \E form \in {"int", "str"} :
          op = <<Call("add", "b1", None, 0), Call("purge", None, form, Len(G1))>>
    /\ result = State(G1)

\* the possibility a triple stands for
PossOf(t) == Poss(t.r, t.g, t.w)

\* the triple carries the referent system of the state (any, when the state
\* has no possibility)
CarriesRS(t, s) == InfoRSIsNone(s) \/ RSItems(t.r) = RSItems(InfoRS(s))

\* the triple is structurally equal to a possibility of the state
Present(t, s) == \E q \in s : PossEq(q, PossOf(t))

\* C13: for a possibility p under the referent system of s, s.expand(p) has
\* len(s)+1 possibilities when p is equal to none of s and len(s) when it
\* is, s.shrink(p) equals s when p is not in s, and s is unchanged by both.
C13_ExpandShrink ==
    [][(kind = "info" /\ op = <<>> /\ op' # <<>> /\ CarriesRS(args'.possibilities[1], info)) =>
          LET p == args'.possibilities[1]
          IN  /\ info' = info
              /\ result'.tag = "state"
              /\ op'[1].name = "expand" =>
                    Cardinality(result'.st) = Cardinality(info) + (IF Present(p, info) THEN 0 ELSE 1)
              /\ (op'[1].name = "shrink" /\ ~Present(p, info)) => InfoEq(result'.st, info)]_vars

\* shrink was given a possibility that is not in the state but holds the
\* world of one that is, and expand one the state holds already
C13_Witness ==
    /\ kind = "info"
    /\ Len(op) = 1
    /\ result.tag = "state"
    /\ Cardinality(info) >= 2
    /\ LET p == args.possibilities[1]
       IN  \/ /\ op[1].name = "shrink"
              /\ ~Present(p, info)
              /\ \E q \in info : q.w = p.w
              /\ result.st = info
           \/ /\ op[1].name = "expand"
              /\ Present(p, info)
              /\ p.cls = "Valuation"
              /\ result.st = info

\* a constructor call has ended
Constructed(cls) == kind = "construct" /\ args.cls = cls /\ op # <<>>

\* C14: InformationState over a list in which two possibilities carry
\* different referent systems (different variable-to-peg mappings) fails;
\* it does not build a state.
C14_MismatchedReferentSystemsFail ==
    (/\ Constructed("InformationState")
     /\ \E i, j \in DOMAIN args.possibilities :
            RSItems(args.possibilities[i].r) # RSItems(args.possibilities[j].r))
        => result.tag # "state"

\* C15: DynamicInquisitiveState over a list in which two non-empty
\* information states have different referent systems, one of which may be
\* the empty one, raises the construction error, in either order of the list.
C15_MismatchedStatesRaise ==
    (/\ Constructed("DynamicInquisitiveState")
     /\ \E i, j \in DOMAIN args.infostates :
            /\ args.infostates[i] # {}
            /\ args.infostates[j] # {}
            /\ RSItems(InfoRS(args.infostates[i])) # RSItems(InfoRS(args.infostates[j])))
        => result.tag = "ValueError"

\* C16: InformationState over a list in which the third component of some
\* triple is neither a World nor a Valuation fails at construction, wherever
\* in the list the triple stands; it does not build a state.
C16_WrongWorldTypeFails ==
    (/\ Constructed("InformationState")
     /\ \E i \in DOMAIN args.possibilities : args.possibilities[i].cls \notin {"World", "Valuation"})
        => result.tag # "state"

\* C17: evaluate of an existentially or universally quantified formula on a
\* DynamicInquisitiveState returns a state or 'Undefined', never another
\* error, whatever the receiver (also one whose possibilities carry the empty
\* referent system, and the contradictory state); the referent system of a
\* state it returns holds the bound variable at a peg the receiver's did not have.
C17_QuantifierBindsFreshPeg ==
    (kind = "inq" /\ Called /\ lastf.op \in {"exists", "all"}) =>
        /\ res.tag \in {"state", "'Undefined'"}
        /\ (res.tag = "state" /\ ~InqRSIsNone(res.st)) =>
              /\ lastf.variable \in RSVars(InqRS(res.st))
              /\ ~InqRSIsNone(inq) => RSPeg(InqRS(res.st), lastf.variable) >= Len(InqRS(inq))

\* the atomic formula is defined in every world of the state under g
AtomDefined(S, f, g) == \A s \in S : \A p \in s : WorldSatisfy(p.w, g, f) # "U"

\* C18: on a downward-closed InquisitiveState, for an atomic formula defined
\* in all its worlds under g, evaluate of !(?formula) returns a state equal
\* to the receiver, and so does copy.
C18_BangQuestionIsIdentity ==
    (kind = "static" /\ DownwardClosed(inq)) =>
        /\ (/\ Called
            /\ lastf.op = "bang"
            /\ lastf.term.op = "question"
            /\ lastf.term.term.op \in {"app", "eq"}
            /\ AtomDefined(inq, lastf.term.term, asg)) => res = State(inq)
        /\ (op # <<>> /\ op[1].name = "copy") => result = State(inq)

\* !(?sleep(x)) gave back a state of four worlds that sleep(x) divides
C18_Witness ==
    /\ kind = "static"
    /\ lastf = Bang(Question(App("sleep", "x")))
    /\ res = State(inq)
    /\ Cardinality(inq) = 16
    /\ EvaluateStatic(inq, Question(App("sleep", "x")), asg).st # inq

\* C19: an InquisitiveState built with only_maximal=True, and every state
\* static evaluate calls lead to from it, is downward-closed, and every
\* state returned is a subset of the state it was evaluated on.
C19_StaticDownwardClosed ==
    kind = "static" =>
        /\ DownwardClosed(inq)
        /\ res.tag = "state" => (DownwardClosed(res.st) /\ res.st \subseteq inq)
        /\ result.tag = "state" => (DownwardClosed(result.st) /\ result.st \subseteq inq)

\* an implication, evaluated on the result of an earlier call, kept a proper
\* part of it that has a member of two worlds
C19_Witness ==
    /\ kind = "static"
    /\ calls = 1
    /\ lastf.op = "imp"
    /\ res.tag = "state"
    /\ res.st # inq
    /\ \E s \in res.st : Cardinality(s) >= 2

RECURSIVE HasExists(_)
HasExists(f) ==
    CASE f.op \in {"app", "eq"} -> FALSE
      [] f.op \in {"and", "or", "imp"} -> HasExists(f.first) \/ HasExists(f.second)
      [] f.op = "exists" -> TRUE
      [] OTHER -> HasExists(f.term)

\* C21: evaluate of -formula on an InformationState returns exactly the
\* possibilities of the receiver that no possibility of evaluate(formula) is
\* above, as they stand in the receiver; for a formula without existential
\* quantifiers the two results partition the receiver.
C21_NegationKeepsUnsubsumed ==
    (kind = "info" /\ Called /\ lastf.op = "not") =>
        LET pos == EvaluateInfo(info, lastf.term)
        IN  IF pos = Sentinel THEN res = Sentinel
            ELSE /\ res = State({p \in info : ~\E q \in pos.st : PossLe(p, q)})
                 /\ ~HasExists(lastf.term) =>
                       (pos.tag = "state" /\ pos.st \cup res.st = info /\ pos.st \cap res.st = {})

\* the names the bound variable of -(exists v. P(v)) is taken from
BoundNames == {"z", "x", "v"}

\* C22: on an InformationState, -(exists v. P(v)) for a unary predicate P of
\* the valuations returns the same state whichever name v is, whether or not
\* the referent system holds v already: the possibilities whose world makes
\* P true of no individual.
C22_NegatedExistsIgnoresName ==
    (/\ kind = "info"
     /\ Called
     /\ lastf.op = "not"
     /\ lastf.term.op = "exists"
     /\ lastf.term.term.op = "app"
     /\ lastf.term.term.arg = lastf.term.variable
     /\ \A p \in info : lastf.term.term.pred \in DOMAIN p.w) =>
        /\ res = State({p \in info : p.w[lastf.term.term.pred] = {}})
        /\ \A v \in BoundNames :
              res = EvaluateInfo(info, Not(Exists(v, App(lastf.term.term.pred, v))))

\* the formula is built from predicate applications with &, - and -> only
RECURSIVE Classical(_)
Classical(f) ==
    CASE f.op = "app" -> TRUE
      [] f.op \in {"and", "imp"} -> Classical(f.first) /\ Classical(f.second)
      [] f.op = "not" -> Classical(f.term)
      [] OTHER -> FALSE

\* the state is DynamicInquisitiveState([s]) for an information state s
\* whose possibilities share one assignment
SingleAlternative(S) ==
    /\ UNION S \in S
    /\ S = DISInit({UNION S}, TRUE)
    /\ \A p, q \in UNION S : p.g = q.g

\* C23: for an information state s with one assignment and a formula f of
\* predicate applications, &, - and ->, DynamicInquisitiveState([s]).evaluate(f)
\* is DynamicInquisitiveState([s.evaluate(f)]): its members are the subsets
\* of the result of the dynamic interpreter ('Undefined' where that is).
C23_InquisitiveRefinesDynamic ==
    (kind = "inq" /\ Called /\ Classical(lastf) /\ SingleAlternative(inq)) =>
        LET dpl == EvaluateInfo(UNION inq, lastf)
        IN  IF dpl = Sentinel THEN res = Sentinel
            ELSE dpl.tag = "state" /\ res = State(DISInit({dpl.st}, TRUE))

\* an implication and a negation kept a proper, non-empty part of a state of
\* two worlds or more
C23_Witness ==
    /\ kind = "inq"
    /\ SingleAlternative(inq)
    /\ Cardinality(UNION inq) >= 2
    /\ lastf \in {E0b, Not(App("sleep", "mary"))}
    /\ res.tag = "state"
    /\ res.st # inq
    /\ res.st # {{}}
    /\ res.st = DISInit({EvaluateInfo(UNION inq, lastf).st}, TRUE)

\* the variables of the referent system of a dynamic inquisitive state
InqVars(S) == IF InqRSIsNone(S) THEN {} ELSE RSVars(InqRS(S))

\* the formula is P(v) or -P(v) for a predicate P every world of S defines
TestBody(f, v, S) ==
    LET atom == IF f.op = "not" THEN f.term ELSE f
    IN  /\ atom.op = "app"
        /\ atom.arg = v
        /\ \A s \in S : \A p \in s : atom.pred \in DOMAIN p.w

\* the possibility satisfies the test body
SatisfiesBody(p, f) == IF f.op = "not" THEN AtomVal(p, f.term) = "F" ELSE AtomVal(p, f) = "T"

\* the state s x D under the referent system r extended with v
ExistsProduct(s, r, v, D) == {Poss(Append(r, v), Append(p.g, d), p.w) : p \in s, d \in D}

\* the states s x D', for the members s of S and the non-empty subsets D' of
\* the domain, all of whose possibilities satisfy the body of f, and the
\* empty state
ExistsExpected(S, f) ==
    {t \in {ExistsProduct(s, InfoRS(UNION S), f.variable, D) : s \in S, D \in (SUBSET Dom) \ {{}}} :
        \A p \in t : SatisfiesBody(p, f.term)} \cup {{}}

\* exists z over a test body in z was evaluated on a state that has a
\* referent system, which does not hold z
ExistsCase ==
    /\ kind = "inq"
    /\ Called
    /\ lastf.op = "exists"
    /\ lastf.variable = "z"
    /\ ~InqRSIsNone(inq)
    /\ "z" \notin InqVars(inq)
    /\ TestBody(lastf.term, "z", inq)

HoldsSingletons(S) == {} \in S /\ \A s \in S : \A p \in s : {p} \in S

Rebound(t, peg, d) == {Poss(p.r, [p.g EXCEPT ![peg + 1] = d], p.w) : p \in t}

\* all z over a test body in z was evaluated on DynamicInquisitiveState([s])
\* for an information state s with one assignment, whose referent system
\* does not hold z
AllCase ==
    /\ kind = "inq"
    /\ Called
    /\ lastf.op = "all"
    /\ lastf.variable = "z"
    /\ SingleAlternative(inq)
    /\ UNION inq # {}
    /\ "z" \notin RSVars(InfoRS(UNION inq))
    /\ TestBody(lastf.term, "z", inq)

\* the worlds of s in which the test body holds of every individual
WorldsForAll(s, f) ==
    {w \in Worlds(s) : \A d \in Dom : (d \in w[(IF f.op = "not" THEN f.term ELSE f).pred]) = (f.op # "not")}

\* C25: on DynamicInquisitiveState([s]), s under a referent system r without
\* z and one assignment g, all z. body for a test body in z keeps a state of
\* the body's result iff for every individual d the state with the new peg
\* rebound to d is in the body's result; the only maximal alternative of the
\* result is {(r+z, g+d, w)} over all d and the worlds w of s where the body
\* holds of every individual.
C25_UniversalMembers ==
    AllCase =>
        LET s == UNION inq
            r == InfoRS(s)
            body == ExistsExpected(inq, lastf)
        IN  /\ res = State({t \in body : \A d \in Dom : Rebound(t, Len(r), d) \in body})
            /\ MaximalMembers(res.st) =
                  {{Poss(Append(r, "z"), Append(p.g, d), p.w) : p \in {q \in s : q.w \in WorldsForAll(s, lastf.term)}, d \in Dom}}

\* the formula holds no quantifier
RECURSIVE QuantifierFree(_)
QuantifierFree(f) ==
    CASE f.op \in {"app", "eq"} -> TRUE
      [] f.op \in {"and", "or", "imp"} -> QuantifierFree(f.first) /\ QuantifierFree(f.second)
      [] f.op \in {"exists", "all"} -> FALSE
      [] OTHER -> QuantifierFree(f.term)

\* the state is DynamicInquisitiveState([s]) for an information state s
BuiltFromOne(S) == UNION S \in S /\ S = DISInit({UNION S}, TRUE)

\* C26: on a DynamicInquisitiveState built from a single alternative, for a
\* quantifier-free formula, evaluate of !formula equals evaluate of
\* --formula, its one maximal alternative is made of all the possibilities
\* that occur in a member of evaluate(formula), and it equals
\* evaluate(formula) when the formula is atomic; evaluate of ?formula
\* equals evaluate of formula | -formula.
C26_BangAndQuestion ==
    (kind = "inq" /\ Called /\ lastf.op \in {"bang", "question"}
        /\ QuantifierFree(lastf.term) /\ BuiltFromOne(inq)) =>
        LET pos == EvaluateInq(inq, lastf.term)
        IN  /\ lastf.op = "bang" =>
                  /\ res = EvaluateInq(inq, Not(Not(lastf.term)))
                  /\ res.tag = pos.tag
                  /\ res.tag = "state" => MaximalMembers(res.st) = {UNION pos.st}
                  /\ lastf.term.op \in {"app", "eq"} => res = pos
            /\ lastf.op = "question" => res = EvaluateInq(inq, Or(lastf.term, Not(lastf.term)))

\* ! of an inquisitive disjunction gave one alternative where the
\* disjunction itself has two
C26_Witness ==
    /\ kind = "inq"
    /\ lastf = Bang(Or(App("sleep", "mary"), App("dance", "john")))
    /\ BuiltFromOne(inq)
    /\ res.tag = "state"
    /\ Cardinality(MaximalMembers(EvaluateInq(inq, lastf.term).st)) = 2
    /\ Cardinality(MaximalMembers(res.st)) = 1

\* the members of a result that no maximal alternative overlaps partially
ExhExpected(S) ==
    {s \in S : \A a \in MaximalMembers(S) : Worlds(s) \subseteq Worlds(a) \/ Worlds(s) \cap Worlds(a) = {}}

\* C27: on every DynamicInquisitiveState or InquisitiveState, evaluate("X phi")
\* returns exactly the members of evaluate(phi) whose worlds lie inside or
\* apart from the worlds of every maximal alternative of evaluate(phi).
C27_ExhKeepsUnsplit ==
    (kind \in {"inq", "static"} /\ Called /\ lastf.op = "exh") =>
        LET body == IF kind = "inq" THEN EvaluateInq(inq, lastf.term)
                    ELSE EvaluateStatic(inq, lastf.term, asg)
        IN  IF body.tag # "state" THEN res = body
            ELSE res = State(ExhExpected(body.st))

\* S.satisfy(body, g[x := d]) for the individual d
StaticBody(d) == SatisfyStatic(inq, lastf.term, AsgAdd(asg, lastf.variable, d))

\* a static quantifier was evaluated and its body is defined for every individual
StaticQuantifierCase(o) ==
    /\ kind = "static"
    /\ Called
    /\ lastf.op = o
    /\ \A d \in Dom : StaticBody(d).tag = "state"

\* C28: on every InquisitiveState, however it was constructed, evaluate of
\* "all x phi" under g returns the intersection over the individuals d of
\* S.satisfy(phi, g[x := d]), and evaluate of "exists x phi" their union.
C28_QuantifiersMeetAndJoin ==
    /\ StaticQuantifierCase("all") =>
          res = State({s \in UNION {StaticBody(d).st : d \in Dom} : \A d \in Dom : s \in StaticBody(d).st})
    /\ StaticQuantifierCase("exists") =>
          res = State(UNION {StaticBody(d).st : d \in Dom})

\* the four worlds of the static tests, downward closed
FourWorlds == DownwardClosure({StaticInfo(SleepVals)})

WithoutPeg(g, i) == SubSeq(g, 1, i) \o SubSeq(g, i + 2, Len(g))

\* the values of g with v put in at peg i
WithPeg(g, v, i) == SubSeq(g, 1, i) \o <<v>> \o SubSeq(g, i + 1, Len(g))

\* C30: for an Assignment A and a peg i in 0..Len(A)-1, given as a number or
\* as the name "p<i>", A.purge(i) returns A without the value at peg i,
\* A.add(v, i) returns A with v inserted at peg i, and A.purge(i).add(v, i)
\* returns A with only the value at peg i replaced by v, also for peg 0.
C30_PegAddressing ==
    kind = "assignment" =>
        \A form \in {"int", "str"}, i \in 0..(Len(assignment) - 1), v \in Dom :
            /\ op = <<Call("purge", None, form, i)>> => result = State(WithoutPeg(assignment, i))
            /\ op = <<Call("add", v, form, i)>> => result = State(WithPeg(assignment, v, i))
            /\ op = <<Call("purge", None, form, i), Call("add", v, form, i)>>
                  => result = State([assignment EXCEPT ![i + 1] = v])

====
